---- MODULE Spec2Model ----
(***************************************************************************)
(* Model of main.py: the induction animation.  The scheduler              *)
(* (FuncAnimation, frames=100, repeat=True) calls update(frame) every     *)
(* interval; the Pause button calls toggle_pause; the speed slider sets   *)
(* the Tk variable speed.  The model covers the state that update keeps   *)
(* (lines 66-101); the drawing that follows (lines 103-156) writes none   *)
(* of it and is left out, and the scheduler is taken to go on calling     *)
(* update whatever the drawing does.                                       *)
(*                                                                         *)
(* Floating point values are modelled in fixed point:                      *)
(*   lengths        centimetres      (coil y = -3 m  is -300)              *)
(*   speed          metres / second  (whole slider values)                 *)
(*   time           milliseconds     (t = frame * 0.1 s is frame * 100)    *)
(*   field strength hundredths of T  (magnet_strength 1.0 is 100)          *)
(*   B              millitesla                                             *)
(*   flux           milliweber                                             *)
(*   emf            millivolt        (the clip at 100 V is 100000)         *)
(* The radius and strength sliders stay at their initial values.           *)
(***************************************************************************)
EXTENDS Integers, Sequences, FiniteSets

VARIABLES
    paused,          \* main.py:34
    trace_history,   \* main.py:35  list of (time list, flux list)
    current_trace,   \* main.py:36  flux list of the running pass
    current_time,    \* main.py:37  time list of the running pass
    coil_position,   \* main.py:38  <<x, y>>
    speed,           \* main.py:186 slider variable
    frame,           \* next element of the scheduler's frame sequence
    emf,             \* value computed by the last call of update
    nticks,          \* history: calls of update that ran (not paused)
    npaused,         \* history: calls of update that returned at line 69
    ntoggle,         \* history: parity of the calls of toggle_pause
    at_pause,        \* history: simulation state at the last Running -> Paused
    ticks_of         \* history: for each stored sample, the tick that stored it

simvars == <<coil_position, current_time, current_trace, trace_history>>
vars == <<paused, trace_history, current_trace, current_time, coil_position,
          speed, frame, emf, nticks, npaused, ntoggle, at_pause,
          ticks_of>>

----------------------------------------------------------------------------
(* Bounds of the model *)

\* calls of update that run (two passes at full speed take 242)
MaxTicks == 246
\* calls of update delivered while paused
MaxPausedTicks == 1
\* the user moves the slider, and ticks arrive while paused, only after
\* this many calls of update have run: at the start, after the first
\* call, with the coil at the upper frame, and right after the first
\* rollover at full speed
InputTicks == {0, 1, 120, 121}
\* slider positions explored
SpeedVals == {0, 1, 5}
\* longest flux list and flux values of the stand-alone EMF specification
MaxLen == 4
FluxVals == {0, 40000, 140000, 300000}

----------------------------------------------------------------------------
(* Program constants *)

Frames == 100                 \* frames=100
DT == 100                     \* frame * 0.1 s, in ms
SpeedScale == 100             \* speed.get() / 100
UpperFrame == 300             \* coil_position[1] > 3
LowerFrame == -300            \* coil_position[1] = -3
EmfLimit == 100000            \* np.clip(emf, -100, 100)
magnet_position == <<0, 0>>
coil_size == 50               \* DoubleVar(value=0.5)
magnet_strength == 100        \* DoubleVar(value=1.0)
SpeedInit == 1                \* DoubleVar(value=1.0)
SpeedMin == 0                 \* from_=0.0
SpeedMax == 5                 \* to=5.0
Pi == 31416                   \* np.pi, in 1/10000
RMin == 10                    \* np.clip(r, 0.1, None)

----------------------------------------------------------------------------
(* numpy *)

Min(a, b) == IF a < b THEN a ELSE b
Max(a, b) == IF a > b THEN a ELSE b

\* the largest k in lo..hi with k * k <= n, by bisection
RECURSIVE SqrtIn(_, _, _)
SqrtIn(n, lo, hi) ==
    IF lo >= hi THEN lo
    ELSE LET mid == (lo + hi + 1) \div 2
         IN IF mid * mid <= n THEN SqrtIn(n, mid, hi)
            ELSE SqrtIn(n, lo, mid - 1)

\* np.sqrt on a non-negative value, rounded down
np_sqrt(n) == SqrtIn(n, 0, Min(n, 46340))

\* np.clip without its upper limit
np_clip_lower_only(a, lo, hi) == Max(a, lo)

\* np.clip(a, lo, hi) = minimum(maximum(a, lo), hi)
np_clip(a, lo, hi) == Min(Max(a, lo), hi)

\* np.gradient(f) for unit spacing, len(f) >= 2: one-sided differences at
\* both ends, central differences (f[i+1] - f[i-1]) / 2 inside.  The
\* result is given doubled so that it stays integral.
np_gradient2(f) ==
    [i \in 1..Len(f) |->
        IF i = 1 THEN 2 * (f[2] - f[1])
        ELSE IF i = Len(f) THEN 2 * (f[Len(f)] - f[Len(f) - 1])
        ELSE f[i + 1] - f[i - 1]]

\* the list itself instead of a copy: lines 82-83 clear it
cleared_alias(list) == <<>>

\* list.copy()
copy(list) == list

----------------------------------------------------------------------------
(* magnetic_field *)

\* n * 10^7 / r^5, divided in stages to stay within the integers
DivR5(n, r) ==
    LET q1 == (n * 100) \div r
        q2 == (q1 * 100) \div r
        q3 == (q2 * 100) \div r
        q4 == (q3 * 10) \div r
    IN q4 \div r

magnetic_field(x, y, magnet_pos, strength) ==
    LET r_x == x - magnet_pos[1]
        r_y == y - magnet_pos[2]
        r0 == np_sqrt(r_x * r_x + r_y * r_y)
        r == Max(r0, RMin)
        Bx == DivR5(strength * 3 * r_x * r_y, r)
        By == DivR5(strength * (2 * r_y * r_y - r_x * r_x), r)
    IN <<Bx, By>>

\* lines 86-91: flux through the coil at position pos
Flux(pos) ==
    LET Bf == magnetic_field(pos[1], pos[2], magnet_position, magnet_strength)
        B == np_sqrt(Bf[1] * Bf[1] + Bf[2] * Bf[2])
        coil_area == (Pi * coil_size * coil_size) \div 10000
    IN (B * coil_area) \div 10000

\* lines 97-101: the induced EMF from the flux list
Emf(trace) ==
    IF Len(trace) >= 2
    THEN np_clip((0 - np_gradient2(trace)[Len(trace)]) \div 2,
                 0 - EmfLimit, EmfLimit)
    ELSE 0

----------------------------------------------------------------------------
(* update *)

\* line 79 with >= for >
ReachesUpperFrame(y) == y >= UpperFrame

\* line 79 with the limit of the axes' margin
LeavesUpperMargin(y) == y > UpperFrame + 5

\* line 79
LeavesUpperFrame(y) == y > UpperFrame

\* lines 71-101, the handler when not paused
Step(f) ==
    LET t == f * DT
        time1 == Append(current_time, t)
        y1 == coil_position[2] + (speed * 100) \div SpeedScale
        roll == LeavesUpperFrame(y1)
        y2 == IF roll THEN LowerFrame ELSE y1
        history2 == IF roll
                    THEN Append(trace_history,
                                <<copy(time1), copy(current_trace)>>)
                    ELSE trace_history
        time2 == IF roll THEN <<>> ELSE time1
        trace2 == IF roll THEN <<>> ELSE current_trace
        pos2 == <<coil_position[1], y2>>
        trace3 == Append(trace2, Flux(pos2))
        \* history
        n == nticks + 1
        tt1 == Append(ticks_of.time, n)
        hh2 == IF roll
               THEN Append(ticks_of.history, <<tt1, ticks_of.trace>>)
               ELSE ticks_of.history
        tt2 == IF roll THEN <<>> ELSE tt1
        ft2 == IF roll THEN <<>> ELSE ticks_of.trace
    IN /\ current_time' = time2
       /\ coil_position' = pos2
       /\ trace_history' = history2
       /\ current_trace' = trace3
       /\ emf' = Emf(trace3)
       /\ nticks' = n
       /\ ticks_of' = [time |-> tt2, trace |-> Append(ft2, n), history |-> hh2]
       /\ UNCHANGED npaused

\* lines 68-69
Return ==
    /\ UNCHANGED <<simvars, emf, nticks, ticks_of>>
    /\ npaused' = npaused + 1

\* update without lines 68-69
update_unguarded(f) == Step(f)

update(f) == IF paused THEN Return ELSE Step(f)

\* an instant at which user input is explored
InputInstant == nticks \in InputTicks

\* the scheduler delivers the next frame of range(100), starting over at
\* the end (repeat=True)
Tick ==
    /\ IF paused
       THEN npaused < MaxPausedTicks /\ InputInstant
       ELSE nticks < MaxTicks
    /\ update(frame)
    /\ frame' = (frame + 1) % Frames
    /\ UNCHANGED <<paused, speed, ntoggle, at_pause>>

----------------------------------------------------------------------------
(* toggle_pause *)

\* line 164 as paused = True
set_pause ==
    /\ paused' = TRUE
    /\ UNCHANGED <<simvars, speed, frame, emf>>

toggle_pause ==
    /\ paused' = ~paused
    /\ UNCHANGED <<simvars, speed, frame, emf>>

TogglePause ==
    /\ toggle_pause
    /\ ntoggle' = 1 - ntoggle
    /\ at_pause' = IF paused THEN <<>> ELSE simvars
    /\ UNCHANGED <<nticks, npaused, ticks_of>>

----------------------------------------------------------------------------
(* speed slider *)

SetSpeed(s) ==
    /\ InputInstant
    /\ s # speed
    /\ s >= SpeedMin /\ s <= SpeedMax
    /\ speed' = s
    /\ UNCHANGED <<paused, simvars, frame, emf, nticks, npaused, ntoggle,
                   at_pause, ticks_of>>

----------------------------------------------------------------------------

Init ==
    /\ paused = FALSE
    /\ trace_history = <<>>
    /\ current_trace = <<>>
    /\ current_time = <<>>
    /\ coil_position = <<100, -300>>
    /\ speed = SpeedInit
    /\ frame = 0
    /\ emf = 0
    /\ nticks = 0
    /\ npaused = 0
    /\ ntoggle = 0
    /\ at_pause = <<>>
    /\ ticks_of = [time |-> <<>>, trace |-> <<>>, history |-> <<>>]

Next ==
    \/ Tick
    \/ TogglePause
    \/ \E s \in SpeedVals : SetSpeed(s)

Spec == Init /\ [][Next]_vars

----------------------------------------------------------------------------
(* The EMF estimate as a function of the flux list: lines 94-101 applied  *)
(* to flux values drawn from FluxVals.                                     *)

Sample(flux) ==
    /\ Len(current_trace) < MaxLen
    /\ current_trace' = Append(current_trace, flux)
    /\ emf' = Emf(current_trace')
    /\ UNCHANGED <<paused, trace_history, current_time, coil_position, speed,
                   frame, nticks, npaused, ntoggle, at_pause, ticks_of>>

NextEmf == \E flux \in FluxVals : Sample(flux)

SpecEmf == Init /\ [][NextEmf]_vars

----------------------------------------------------------------------------
(* Claims *)

\* C1: between ticks the time list and the flux list of the current trace
\* have the same length.
C1_SameLength == Len(current_time) = Len(current_trace)

\* C2: a tick delivered while paused changes neither coil_position,
\* current_time, current_trace, trace_history nor paused.
C2_PausedTickChangesNothing ==
    [][(paused /\ frame' # frame) => UNCHANGED <<simvars, paused>>]_vars

C2_Witness == paused /\ npaused >= 1 /\ nticks = 120

\* C3: on a Running tick the archive gains exactly one entry, y becomes -3
\* and the current trace restarts (no time, only this tick's flux sample)
\* if and only if the advanced y is greater than 3; otherwise the archive
\* is unchanged, y keeps the advanced value and both lists grow by one.
C3_RolloverIffAboveUpper ==
    [][nticks' # nticks =>
        LET y1 == coil_position[2] + speed
        IN IF y1 > 300
           THEN /\ Len(trace_history') = Len(trace_history) + 1
                /\ coil_position'[2] = -300
                /\ current_time' = <<>>
                /\ Len(current_trace') = 1
           ELSE /\ trace_history' = trace_history
                /\ coil_position'[2] = y1
                /\ Len(current_time') = Len(current_time) + 1
                /\ SubSeq(current_time', 1, Len(current_time)) = current_time
                /\ Len(current_trace') = Len(current_trace) + 1
                /\ SubSeq(current_trace', 1, Len(current_trace))
                       = current_trace]_vars

C3_Witness ==
    /\ Len(trace_history) = 1
    /\ coil_position[2] = -300
    /\ current_time = <<>>
    /\ Len(current_trace) = 1

\* C4: every archived trace has a time list and a flux list of the same
\* length, and its i-th time and i-th flux were stored by the same tick.
C4_ArchivedWellFormed ==
    \A k \in 1..Len(trace_history) :
        /\ Len(trace_history[k][1]) = Len(trace_history[k][2])
        /\ ticks_of.history[k][1] = ticks_of.history[k][2]

\* C5: the times stored in the current trace are strictly increasing.
C5_TimeIncreasing ==
    \A i \in 1..(Len(current_time) - 1) : current_time[i] < current_time[i + 1]

\* C6: ticks delivered while paused do not advance the time: consecutive
\* times of the current trace differ by exactly 0.1 s.
C6_PausedTicksKeepTime ==
    \A i \in 1..(Len(current_time) - 1) :
        current_time[i + 1] = current_time[i] + 100

\* C7: paused is a boolean that starts FALSE and is flipped by each
\* toggle_pause and by nothing else; a toggle changes nothing else of the
\* simulation state, and while paused the simulation state stays what it
\* was at the toggle, so that the second toggle returns to it.
C7_ToggleFlipsOnly ==
    /\ [](/\ paused \in BOOLEAN
          /\ paused = (ntoggle = 1)
          /\ paused => at_pause = simvars)
    /\ [][paused' # paused => (ntoggle' # ntoggle /\ UNCHANGED simvars)]_vars

C7_Witness == ~paused /\ ntoggle = 0 /\ npaused >= 1 /\ nticks = 120

\* C8: the EMF of the flux list F is 0 when len(F) < 2 and otherwise
\* -(F[last] - F[last-1]) clamped to [-100, 100] V.
C8_EmfReference ==
    emf = IF Len(current_trace) < 2 THEN 0
          ELSE LET e == current_trace[Len(current_trace) - 1]
                        - current_trace[Len(current_trace)]
               IN IF e > 100000 THEN 100000
                  ELSE IF e < -100000 THEN -100000
                  ELSE e

C8_Witness ==
    /\ Len(current_trace) >= 3
    /\ current_trace[Len(current_trace) - 1] - current_trace[Len(current_trace)]
           > 100000
    /\ emf = 100000

\* C9: the archive only grows, by one entry per tick at most, at its end,
\* the new entry being the trace that was current; the entries already
\* archived keep their place and their content.
C9_ArchiveAppendOnly ==
    [][\/ trace_history' = trace_history
       \/ /\ nticks' # nticks
          /\ Len(trace_history') = Len(trace_history) + 1
          /\ SubSeq(trace_history', 1, Len(trace_history)) = trace_history
          /\ trace_history'[Len(trace_history')]
                 = <<Append(current_time, frame * 100), current_trace>>]_vars

C9_Witness ==
    /\ Len(trace_history) = 1
    /\ Len(trace_history[1][1]) = 121
    /\ Len(current_trace) >= 2

\* C10: between ticks the coil is inside the window, -3 <= y <= 3, and its
\* x stays 1.
C10_CoilInsideWindow ==
    /\ coil_position[1] = 100
    /\ coil_position[2] >= -300
    /\ coil_position[2] <= 300

C10_Witness == coil_position[2] = 300 /\ speed = 0 /\ nticks > 120

====
